---- MODULE Spec2Model ----
(***************************************************************************)
(* A model of media_organizer: MediaOrganizer.organize and the functions   *)
(* it calls (extract_metadata, render_template, _resolve_destination,      *)
(* _apply_action) running over a small file system (Spec; FairSpec is the  *)
(* same loop with the fairness of a running thread), and the functions of  *)
(* metadata.py and templates.py called on their own (Calls).               *)
(*                                                                         *)
(* A path is a sequence of components; an absolute path starts with "/".   *)
(* The file system is a function from absolute paths to entries.  An       *)
(* Optional value is <<>> (None) or <<v>>.  The result of a function that  *)
(* can raise is a record with a field `raised` and the exception text.     *)
(***************************************************************************)
EXTENDS Integers, Sequences, FiniteSets, TLC

None == <<>>
Some(v) == <<v>>

(* ------------------------------ bounds -------------------------------- *)

\* the longest input sequence handed to organize
MaxFiles == 3

(* ------------------------------ pathlib ------------------------------- *)

\* the working directory of the process
cwd == <<"/", "w">>

IsAbsolute(p) == Len(p) > 0 /\ p[1] = "/"

\* Path.resolve() / the OS lookup of a path given relative to the process
Abs(p) == IF IsAbsolute(p) THEN p ELSE cwd \o p

Parent(p) == SubSeq(p, 1, Len(p) - 1)

Name(p) == p[Len(p)]

\* the extension sets of metadata.py
IMAGE_EXTENSIONS ==
    {".jpg", ".jpeg", ".png", ".gif", ".bmp", ".tiff", ".tif", ".heic",
     ".heif", ".raw", ".cr2", ".nef", ".arw"}

VIDEO_EXTENSIONS ==
    {".mp4", ".mov", ".m4v", ".mkv", ".avi", ".wmv", ".mpg", ".mpeg", ".3gp",
     ".webm", ".mts", ".m2ts"}

AUDIO_EXTENSIONS ==
    {".mp3", ".aac", ".flac", ".wav", ".ogg", ".oga", ".m4a", ".wma", ".aiff",
     ".aif"}

DOCUMENT_EXTENSIONS ==
    {".pdf", ".doc", ".docx", ".ppt", ".pptx", ".xls", ".xlsx", ".txt", ".rtf",
     ".odt", ".ods", ".odp"}

ListedExtensions ==
    IMAGE_EXTENSIONS \cup VIDEO_EXTENSIONS \cup AUDIO_EXTENSIONS
    \cup DOCUMENT_EXTENSIONS

\* the file names of the model with their PurePath.stem and PurePath.suffix:
\* a file "f" of every listed extension, and the named files
NameTable ==
    {<<"f" \o e, "f", e>> : e \in ListedExtensions} \cup
    {<<"photo.jpg", "photo", ".jpg">>,
     <<"IMG.JPG", "IMG", ".JPG">>,
     <<"notes.xyz", "notes", ".xyz">>,
     <<"AirBrush_20210823224920_1.jpg", "AirBrush_20210823224920_1", ".jpg">>,
     <<"20221024-202545-730_1.mp4", "20221024-202545-730_1", ".mp4">>,
     <<"track.MP3", "track", ".MP3">>,
     <<"manual.PDF", "manual", ".PDF">>,
     <<"archive.xyz", "archive", ".xyz">>,
     <<"archive.tar.gz", "archive.tar", ".gz">>,
     <<"README", "README", "">>,
     <<"clip.Mov", "clip", ".Mov">>,
     <<"locked.jpg", "locked", ".jpg">>,
     <<"original.jpg", "original", ".jpg">>,
     <<"digitized.jpg", "digitized", ".jpg">>,
     <<"datetime.jpg", "datetime", ".jpg">>,
     <<"allthree.jpg", "allthree", ".jpg">>,
     <<"emptyoriginal.jpg", "emptyoriginal", ".jpg">>,
     <<"isooriginal.jpg", "isooriginal", ".jpg">>,
     <<"isoonly.jpg", "isoonly", ".jpg">>,
     <<"makeonly.jpg", "makeonly", ".jpg">>,
     <<"noprobe.mov", "noprobe", ".mov">>,
     <<"failing.mov", "failing", ".mov">>,
     <<"garbled.mov", "garbled", ".mov">>,
     <<"blocked.mov", "blocked", ".mov">>,
     <<"corrupt.mp3", "corrupt", ".mp3">>,
     <<"nolib.mp3", "nolib", ".mp3">>,
     <<"corrupt.pdf", "corrupt", ".pdf">>,
     <<"nolib.pdf", "nolib", ".pdf">>,
     <<"report.docx", "report", ".docx">>,
     <<"notzip.docx", "notzip", ".docx">>,
     <<"nocore.docx", "nocore", ".docx">>,
     <<"badxml.docx", "badxml", ".docx">>,
     <<"locked.docx", "locked", ".docx">>,
     <<"sheet.ods", "sheet", ".ods">>,
     <<"plain.txt", "plain", ".txt">>}

\* PurePath.stem and PurePath.suffix of the file names of the model
SplitName ==
    [n \in {t[1] : t \in NameTable} |->
        LET t == CHOOSE u \in NameTable : u[1] = n
        IN  [stem |-> t[2], suffix |-> t[3]]]

\* the suffixes of the model that have upper-case letters, lowered
LowerTable ==
    {<<".JPG", ".jpg">>, <<".MP3", ".mp3">>, <<".PDF", ".pdf">>, <<".Mov", ".mov">>}

\* str.lower() on the suffixes of the model
Lower(s) ==
    IF \E t \in LowerTable : t[1] = s
    THEN (CHOOSE t \in LowerTable : t[1] = s)[2]
    ELSE s

(* ---------------------------- file system ----------------------------- *)

DirEntry == [kind |-> "dir", data |-> "", target |-> <<>>]
FileEntry(d) == [kind |-> "file", data |-> d, target |-> <<>>]
LinkEntry(t) == [kind |-> "symlink", data |-> "", target |-> t]

\* os.path.lexists: the directory entry itself
LExists(f, p) == p \in DOMAIN f

\* where a symbolic link at `link` with content `target` points
LinkTarget(link, target) ==
    IF IsAbsolute(target) THEN target ELSE Parent(link) \o target

\* the entry reached from p following a symbolic link (links of the model
\* never point to links), None when there is none
Follow(f, p) ==
    IF p \notin DOMAIN f THEN None
    ELSE IF f[p].kind # "symlink" THEN Some(p)
    ELSE LET t == LinkTarget(p, f[p].target)
         IN  IF t \in DOMAIN f /\ f[t].kind # "symlink" THEN Some(t) ELSE None

\* Path.exists(): follows symbolic links, so a dangling link does not exist
Exists(f, p) == Follow(f, p) # None

IsDir(f, p) == Exists(f, p) /\ f[Follow(f, p)[1]].kind = "dir"

IsFile(f, p) == Exists(f, p) /\ f[Follow(f, p)[1]].kind = "file"

Put(f, p, e) == [q \in DOMAIN f \cup {p} |-> IF q = p THEN e ELSE f[q]]

Remove(f, p) == [q \in DOMAIN f \ {p} |-> f[q]]

Prefixes(p) == {SubSeq(p, 1, k) : k \in 1..Len(p)}

\* Path.mkdir(parents=True, exist_ok=True)
Mkdir(f, d) ==
    IF \E q \in Prefixes(d) : q # d /\ LExists(f, q) /\ ~IsDir(f, q)
    THEN [raised |-> TRUE, exc |-> "[Errno 20] Not a directory", fs |-> f]
    ELSE IF LExists(f, d) /\ ~IsDir(f, d)
    THEN [raised |-> TRUE, exc |-> "[Errno 17] File exists", fs |-> f]
    ELSE [raised |-> FALSE, exc |-> "",
          fs |-> [q \in DOMAIN f \cup Prefixes(d) |->
                    IF q \in DOMAIN f THEN f[q] ELSE DirEntry]]

(* ------------------------- the files at hand --------------------------- *)

Date(y, mo, d, h, mi, s) ==
    [year |-> y, month |-> mo, day |-> d, hour |-> h, minute |-> mi, second |-> s]

PhotoA == <<"/", "S", "photo.jpg">>
PhotoB == <<"/", "S", "sub", "photo.jpg">>
ImgRel == <<"S", "IMG.JPG">>
Notes  == <<"/", "S", "notes.xyz">>

\* the paths the scanner can hand to organize
Sources == {PhotoA, PhotoB, ImgRel, Notes}

NoTags == [t \in {} |-> ""]

\* the example files the functions are called on outside organize
Example(name) == <<"/", "E", name>>

\* the names of ExampleNames whose reader meets an error, with the error
ReadErrors ==
    {<<"locked.jpg", "PermissionError">>,
     <<"noprobe.mov", "FileNotFoundError">>,
     <<"failing.mov", "CalledProcessError">>,
     <<"garbled.mov", "JSONDecodeError">>,
     <<"blocked.mov", "PermissionError">>,
     <<"corrupt.mp3", "MutagenError">>,
     <<"nolib.mp3", "ImportError">>,
     <<"corrupt.pdf", "PdfReadError">>,
     <<"nolib.pdf", "ImportError">>,
     <<"notzip.docx", "BadZipFile">>,
     <<"nocore.docx", "KeyError">>,
     <<"badxml.docx", "ParseError">>,
     <<"locked.docx", "PermissionError">>}

\* the names of ExampleNames whose container or document tags hold a date
TagDates ==
    {<<"20221024-202545-730_1.mp4", Date(2022, 10, 24, 20, 25, 45)>>,
     <<"clip.Mov", Date(2023, 9, 10, 10, 15, 34)>>,
     <<"track.MP3", Date(2019, 5, 1, 0, 0, 0)>>,
     <<"manual.PDF", Date(2020, 2, 29, 18, 0, 0)>>,
     <<"report.docx", Date(2022, 3, 4, 9, 0, 0)>>,
     <<"sheet.ods", Date(2022, 6, 7, 9, 0, 0)>>,
     <<"plain.txt", Date(2022, 8, 9, 9, 0, 0)>>}

\* the names of ExampleNames that have EXIF tags, with the tags: each date
\* tag alone, the three together, a first tag that is empty, a first tag
\* that is not written YYYY:MM:DD HH:MM:SS, and no date tag
ExifTags ==
    {<<"locked.jpg", "DateTimeOriginal" :> "2023:01:02 12:00:00">>,
     <<"original.jpg", "DateTimeOriginal" :> "2023:01:02 12:00:00">>,
     <<"digitized.jpg", "DateTimeDigitized" :> "2021:08:23 22:49:20">>,
     <<"datetime.jpg", "DateTime" :> "2019:05:01 00:00:00">>,
     <<"allthree.jpg", "DateTimeOriginal" :> "2023:01:02 12:00:00"
                       @@ "DateTimeDigitized" :> "2021:08:23 22:49:20"
                       @@ "DateTime" :> "2019:05:01 00:00:00">>,
     <<"emptyoriginal.jpg", "DateTimeOriginal" :> ""
                            @@ "DateTime" :> "2019:05:01 00:00:00">>,
     <<"isooriginal.jpg", "DateTimeOriginal" :> "2023-01-02T12:00:00"
                          @@ "DateTimeDigitized" :> "2021:08:23 22:49:20">>,
     <<"isoonly.jpg", "DateTime" :> "2019-05-01T00:00:00">>,
     <<"makeonly.jpg", "Make" :> "Canon">>}

ExampleNames ==
    {"AirBrush_20210823224920_1.jpg", "archive.xyz"}
    \cup {t[1] : t \in ReadErrors} \cup {t[1] : t \in TagDates}
    \cup {t[1] : t \in ExifTags}

Examples == {Example(n) : n \in ExampleNames}

\* what each file holds: its EXIF tags, the date of its container or
\* document tags, the error its reader meets ("" for none), and the times
\* stat reports for it
World ==
    [p \in Sources \cup Examples |->
        CASE p = PhotoA ->
               [exif |-> [t \in {"DateTimeOriginal", "Make", "Model"} |->
                            CASE t = "DateTimeOriginal" -> "2023:01:02 12:00:00"
                              [] t = "Make" -> "Canon"
                              [] t = "Model" -> "EOS 5D"],
                tags |-> None, fault |-> "",
                st_birthtime |-> Date(2023, 1, 2, 12, 0, 0),
                st_mtime |-> Date(2023, 1, 3, 9, 30, 0)]
          [] p = PhotoB ->
               [exif |-> NoTags,
                tags |-> None, fault |-> "",
                st_birthtime |-> Date(2023, 1, 1, 0, 0, 0),
                st_mtime |-> Date(2023, 1, 1, 0, 0, 0)]
          [] p = ImgRel ->
               [exif |-> [t \in {"DateTimeOriginal"} |-> "2021:08:23 22:49:20"],
                tags |-> None, fault |-> "",
                st_birthtime |-> Date(2021, 8, 23, 22, 49, 20),
                st_mtime |-> Date(2021, 8, 24, 7, 0, 0)]
          [] p = Notes ->
               [exif |-> NoTags,
                tags |-> None, fault |-> "",
                st_birthtime |-> Date(2021, 8, 1, 8, 0, 0),
                st_mtime |-> Date(2021, 8, 2, 8, 0, 0)]
          [] OTHER ->
               [exif |-> IF \E t \in ExifTags : t[1] = Name(p)
                         THEN (CHOOSE t \in ExifTags : t[1] = Name(p))[2]
                         ELSE NoTags,
                tags |-> IF \E t \in TagDates : t[1] = Name(p)
                         THEN Some((CHOOSE t \in TagDates : t[1] = Name(p))[2])
                         ELSE None,
                fault |-> IF \E t \in ReadErrors : t[1] = Name(p)
                          THEN (CHOOSE t \in ReadErrors : t[1] = Name(p))[2]
                          ELSE "",
                st_birthtime |-> Date(2024, 3, 1, 10, 0, 0),
                st_mtime |-> Date(2024, 3, 2, 11, 0, 0)]]

\* the content of a source file, named after its path
DataOf(p) == "data:" \o Name(Parent(p)) \o "/" \o Name(p)

(* ----------------------------- metadata.py ----------------------------- *)

\* MediaCategory: the folder name of each category
folder_name(category) ==
    CASE category = "PHOTOS_VIDEOS" -> "Fotos_y_Videos"
      [] category = "MUSIC" -> "Musica"
      [] category = "DOCUMENTS" -> "Documentos"
      [] category = "OTHER" -> "Otros"

\* MediaMetadata.stem
stem(path) == SplitName[Name(path)].stem

\* MediaMetadata.suffix
suffix(path) == Lower(SplitName[Name(path)].suffix)

\* the members of TimestampSource
TimestampSource == {"METADATA", "FILE_CREATION", "FILE_MODIFICATION", "UNKNOWN"}

\* every source but UNKNOWN taken for reliable
has_reliable_timestamp_any_known(metadata) ==
    metadata.timestamp_source # "UNKNOWN"

has_reliable_timestamp(metadata) ==
    metadata.timestamp_source \in {"METADATA", "FILE_CREATION"}

\* the extension compared as it is written
detect_media_type_as_written(path) ==
    LET sfx == SplitName[Name(path)].suffix
    IN  IF sfx \in IMAGE_EXTENSIONS THEN "IMAGE"
        ELSE IF sfx \in VIDEO_EXTENSIONS THEN "VIDEO"
        ELSE IF sfx \in AUDIO_EXTENSIONS THEN "AUDIO"
        ELSE IF sfx \in DOCUMENT_EXTENSIONS THEN "DOCUMENT"
        ELSE "OTHER"

\* the members of MediaType
MediaType == {"IMAGE", "VIDEO", "AUDIO", "DOCUMENT", "OTHER"}

detect_media_type(path) ==
    LET sfx == Lower(SplitName[Name(path)].suffix)
    IN  IF sfx \in IMAGE_EXTENSIONS THEN "IMAGE"
        ELSE IF sfx \in VIDEO_EXTENSIONS THEN "VIDEO"
        ELSE IF sfx \in AUDIO_EXTENSIONS THEN "AUDIO"
        ELSE IF sfx \in DOCUMENT_EXTENSIONS THEN "DOCUMENT"
        ELSE "OTHER"

resolve_category(media_type) ==
    IF media_type \in {"IMAGE", "VIDEO"} THEN "PHOTOS_VIDEOS"
    ELSE IF media_type = "AUDIO" THEN "MUSIC"
    ELSE IF media_type = "DOCUMENT" THEN "DOCUMENTS"
    ELSE "OTHER"

\* datetime.strptime(value, "%Y:%m:%d %H:%M:%S"), read as UTC and converted
\* to the local zone (UTC in the model); None for any other text
_parse_exif_datetime(value) ==
    CASE value = "2023:01:02 12:00:00" -> Some(Date(2023, 1, 2, 12, 0, 0))
      [] value = "2021:08:23 22:49:20" -> Some(Date(2021, 8, 23, 22, 49, 20))
      [] value = "2019:05:01 00:00:00" -> Some(Date(2019, 5, 1, 0, 0, 0))
      [] OTHER -> None

\* dict.get(key) or ...: the value of the first tag that is present and truthy
ExifGet(exif, tag) == IF tag \in DOMAIN exif /\ exif[tag] # "" THEN Some(exif[tag]) ELSE None

_clean_string(value) == value

\* the error the reader of a file meets, "" for none; `missing` is the error
\* it meets when the file is not there
ReadError(f, path, missing) ==
    IF ~IsFile(f, Abs(path)) THEN missing ELSE World[path].fault

\* (captured_at, camera_make, camera_model, timestamp_source); the try block
\* has `except Exception`, which catches every error of the reader
_extract_image_metadata(f, path) ==
    LET unknown == [captured_at |-> None, camera_make |-> None,
                    camera_model |-> None, timestamp_source |-> "UNKNOWN"]
    IN  IF ReadError(f, path, "FileNotFoundError") # "" THEN unknown
        ELSE LET exif == World[path].exif
             IN  IF DOMAIN exif = {} THEN unknown
                 ELSE LET date_value ==
                              IF ExifGet(exif, "DateTimeOriginal") # None
                              THEN ExifGet(exif, "DateTimeOriginal")
                              ELSE IF ExifGet(exif, "DateTimeDigitized") # None
                              THEN ExifGet(exif, "DateTimeDigitized")
                              ELSE ExifGet(exif, "DateTime")
                          captured_at ==
                              IF date_value # None
                              THEN _parse_exif_datetime(date_value[1]) ELSE None
                      IN  [captured_at |-> captured_at,
                           camera_make |-> _clean_string(ExifGet(exif, "Make")),
                           camera_model |-> _clean_string(ExifGet(exif, "Model")),
                           timestamp_source |->
                               IF captured_at # None THEN "METADATA" ELSE "UNKNOWN"]

\* str(exc) of the errors of the model
ExcText(error) ==
    IF error = "PermissionError" THEN "[Errno 13] Permission denied" ELSE error

\* what an extractor gives: the error goes through when no except clause
\* names it, (None, UNKNOWN) when one does, the date of the tags otherwise
Extracted(error, caught, tags) ==
    IF error # "" /\ error \notin caught
    THEN [raised |-> TRUE, exc |-> ExcText(error),
          captured_at |-> None, timestamp_source |-> "UNKNOWN"]
    ELSE IF error # "" \/ tags = None
    THEN [raised |-> FALSE, exc |-> "",
          captured_at |-> None, timestamp_source |-> "UNKNOWN"]
    ELSE [raised |-> FALSE, exc |-> "",
          captured_at |-> tags, timestamp_source |-> "METADATA"]

\* every error of the model is an Exception
Exceptions ==
    {"FileNotFoundError", "PermissionError"} \cup {t[2] : t \in ReadErrors}

\* subprocess.run of ffprobe and json.loads of its output, with the except
\* clauses of each; ffprobe exits with an error on a file that is not there
_extract_video_metadata(f, path) ==
    Extracted(ReadError(f, path, "CalledProcessError"),
              {"FileNotFoundError", "CalledProcessError", "JSONDecodeError"},
              World[path].tags)

\* mutagen is None when its import failed; mutagen.File under `except
\* Exception`
_extract_audio_metadata(f, path) ==
    Extracted(ReadError(f, path, "MutagenError"), Exceptions, World[path].tags)

\* PdfReader is None when its import failed; PdfReader(path) under `except
\* Exception`
_extract_pdf_metadata(f, path) ==
    Extracted(ReadError(f, path, "FileNotFoundError"), Exceptions, World[path].tags)

\* zipfile.ZipFile and archive.open under `except (FileNotFoundError,
\* KeyError, zipfile.BadZipFile)`, ET.fromstring under `except ET.ParseError`
_extract_office_metadata(f, path) ==
    Extracted(ReadError(f, path, "FileNotFoundError"),
              {"FileNotFoundError", "KeyError", "BadZipFile", "ParseError"},
              World[path].tags)

_extract_document_metadata(f, path) ==
    IF suffix(path) = ".pdf" THEN _extract_pdf_metadata(f, path)
    ELSE IF suffix(path) \in {".docx", ".pptx", ".xlsx", ".odt", ".ods", ".odp"}
    THEN _extract_office_metadata(f, path)
    ELSE Extracted("", {}, None)

\* the fallback that keeps its initial UNKNOWN when there is no birth time
_filesystem_timestamp_unset(f, path, birthtime) ==
    IF ~Exists(f, Abs(path))
    THEN [raised |-> TRUE, exc |-> "[Errno 2] No such file or directory",
          captured_at |-> None, timestamp_source |-> "UNKNOWN"]
    ELSE IF birthtime
    THEN [raised |-> FALSE, exc |-> "",
          captured_at |-> Some(World[path].st_birthtime),
          timestamp_source |-> "FILE_CREATION"]
    ELSE [raised |-> FALSE, exc |-> "",
          captured_at |-> Some(World[path].st_mtime),
          timestamp_source |-> "UNKNOWN"]

\* stat() raises when the path is not there; birth time when the platform
\* exposes it, the modification time otherwise
_filesystem_timestamp(f, path, birthtime) ==
    IF ~Exists(f, Abs(path))
    THEN [raised |-> TRUE, exc |-> "[Errno 2] No such file or directory",
          captured_at |-> None, timestamp_source |-> "UNKNOWN"]
    ELSE IF birthtime
    THEN [raised |-> FALSE, exc |-> "",
          captured_at |-> Some(World[path].st_birthtime),
          timestamp_source |-> "FILE_CREATION"]
    ELSE [raised |-> FALSE, exc |-> "",
          captured_at |-> Some(World[path].st_mtime),
          timestamp_source |-> "FILE_MODIFICATION"]

\* the dispatch of extract_metadata on the media type: (captured_at,
\* timestamp_source) of the extractor of the type, or its exception
Dispatch(f, path, media_type, img) ==
    CASE media_type = "IMAGE" ->
           [raised |-> FALSE, exc |-> "",
            captured_at |-> img.captured_at,
            timestamp_source |-> img.timestamp_source]
      [] media_type = "VIDEO" -> _extract_video_metadata(f, path)
      [] media_type = "AUDIO" -> _extract_audio_metadata(f, path)
      [] media_type = "DOCUMENT" -> _extract_document_metadata(f, path)
      [] OTHER -> Extracted("", {}, None)

\* the end of extract_metadata: the fallback when the extractor gave no
\* date, and the record; `extracted` keeps what the extractor found
Assemble(path, media_type, img, found, fallback) ==
    LET use_fallback == found.captured_at = None
    IN  [raised |-> found.raised \/ (use_fallback /\ fallback.raised),
         exc |-> IF found.raised THEN found.exc
                 ELSE IF use_fallback THEN fallback.exc ELSE "",
         extracted |-> found.captured_at,
         metadata |->
            [source_path |-> path,
             media_type |-> media_type,
             category |-> resolve_category(media_type),
             captured_at |->
                 IF use_fallback THEN fallback.captured_at ELSE found.captured_at,
             camera_make |-> IF media_type = "IMAGE" THEN img.camera_make ELSE None,
             camera_model |-> IF media_type = "IMAGE" THEN img.camera_model ELSE None,
             original_name |-> Name(path),
             timestamp_source |->
                 IF use_fallback THEN fallback.timestamp_source
                 ELSE found.timestamp_source]]

\* the record extract_metadata returns, or the exception it lets through
extract_metadata(f, path, birthtime) ==
    Assemble(path, detect_media_type(path), _extract_image_metadata(f, path),
             Dispatch(f, path, detect_media_type(path),
                      _extract_image_metadata(f, path)),
             _filesystem_timestamp(f, path, birthtime))

(* ----------------------------- templates.py ---------------------------- *)

MONTH_NAMES_ES ==
    <<"enero", "febrero", "marzo", "abril", "mayo", "junio", "julio",
      "agosto", "septiembre", "octubre", "noviembre", "diciembre">>

MONTH_NAMES_ES_SHORT ==
    <<"ene", "feb", "mar", "abr", "may", "jun", "jul", "ago", "sep", "oct",
      "nov", "dic">>

\* A template is the sequence of its path segments, a segment the sequence of
\* its pieces: literal text, or a replacement field {name:spec} or
\* {name!conv:spec} of str.format.
Lit(text) == [ph |-> FALSE, name |-> text, spec |-> "", conv |-> ""]
Ph(name, spec) == [ph |-> TRUE, name |-> name, spec |-> spec, conv |-> ""]
PhConv(name, conv, spec) == [ph |-> TRUE, name |-> name, spec |-> spec, conv |-> conv]

DEFAULT_TEMPLATES ==
    [n \in {"default", "year_month_day", "camera", "year_month_name",
            "year_month_name_short"} |->
        CASE n = "default" ->
               << <<Ph("year", "")>>, <<Ph("month", "02d")>> >>
          [] n = "year_month_day" ->
               << <<Ph("year", "")>>, <<Ph("month", "02d")>>, <<Ph("day", "02d")>> >>
          [] n = "camera" ->
               << <<Ph("camera_make", "")>>, <<Ph("camera_model", "")>>,
                  <<Ph("year", "")>>, <<Ph("month", "02d")>> >>
          [] n = "year_month_name" ->
               << <<Ph("year", "")>>, <<Ph("month_name", "")>> >>
          [] n = "year_month_name_short" ->
               << <<Ph("year", "")>>, <<Ph("month_name_short", "")>> >>]

available_placeholders ==
    {"year", "month", "day", "hour", "minute", "second", "stem", "ext",
     "camera_make", "camera_model", "month_name", "month_name_short"}

\* a value of the substitution context: an int or a str
IntVal(n) == [int |-> TRUE, n |-> n, s |-> ""]
StrVal(s) == [int |-> FALSE, n |-> 0, s |-> s]

\* _slug on the camera names of the model
_slug(value) ==
    CASE value = "Canon" -> "canon"
      [] value = "EOS 5D" -> "eos-5d"
      [] OTHER -> "unknown"

\* str.lstrip(".") on the suffixes of the model
LStripDot(s) ==
    CASE s = ".jpg" -> "jpg"
      [] s = ".xyz" -> "xyz"
      [] OTHER -> s

build_context(metadata, extra) ==
    LET dt == metadata.captured_at[1]
        base ==
          [k \in available_placeholders |->
            CASE k = "year" -> IntVal(dt.year)
              [] k = "month" -> IntVal(dt.month)
              [] k = "day" -> IntVal(dt.day)
              [] k = "hour" -> IntVal(dt.hour)
              [] k = "minute" -> IntVal(dt.minute)
              [] k = "second" -> IntVal(dt.second)
              [] k = "stem" -> StrVal(stem(metadata.source_path))
              [] k = "ext" -> StrVal(LStripDot(suffix(metadata.source_path)))
              [] k = "camera_make" ->
                   StrVal(IF metadata.camera_make # None
                          THEN _slug(metadata.camera_make[1]) ELSE "unknown")
              [] k = "camera_model" ->
                   StrVal(IF metadata.camera_model # None
                          THEN _slug(metadata.camera_model[1]) ELSE "unknown")
              [] k = "month_name" -> StrVal(MONTH_NAMES_ES[dt.month])
              [] k = "month_name_short" -> StrVal(MONTH_NAMES_ES_SHORT[dt.month])]
    IN  [k \in DOMAIN base \cup DOMAIN extra |->
            IF k \in DOMAIN extra THEN StrVal(extra[k]) ELSE base[k]]

\* the identifiers VALID_PLACEHOLDER_RE finds in the template: the regular
\* expression wants "}" or ":" right after the identifier, so it does not
\* match a field with a conversion
PlaceholderNames(template) ==
    UNION {{template[i][j].name :
              j \in {k \in 1..Len(template[i]) :
                       template[i][k].ph /\ template[i][k].conv = ""}} :
            i \in 1..Len(template)}

\* sorted(): the order of the placeholder names the model uses
NameOrder == <<"category", "evento", "unknown">>

RECURSIVE JoinSorted(_, _)
JoinSorted(names, from) ==
    IF from > Len(NameOrder) THEN ""
    ELSE LET rest == JoinSorted(names, from + 1)
         IN  IF NameOrder[from] \notin names THEN rest
             ELSE IF rest = "" THEN NameOrder[from]
             ELSE NameOrder[from] \o ", " \o rest

\* the message of the ValueError, or None when the template is valid
_validate_template(template, extra) ==
    LET allowed == available_placeholders \cup DOMAIN extra
        unmatched == {n \in PlaceholderNames(template) : n \notin allowed}
    IN  IF unmatched # {}
        THEN Some("El template contiene placeholders desconocidos: "
                  \o JoinSorted(unmatched, 1))
        ELSE None

\* format() ignoring the spec: no zero padding
FormatValue_unpadded(v, spec) == IF v.int THEN ToString(v.n) ELSE v.s

\* format(value, spec) for the specs the templates use
FormatValue(v, spec) ==
    IF spec = "02d"
    THEN (IF v.n < 10 THEN "0" \o ToString(v.n) ELSE ToString(v.n))
    ELSE IF v.int THEN ToString(v.n) ELSE v.s

\* the conversion of a replacement field: !r is repr()
Convert(v, conv) ==
    IF conv = "" THEN v
    ELSE IF v.int THEN StrVal(ToString(v.n))
    ELSE StrVal("'" \o v.s \o "'")

RECURSIVE FormatSegment(_, _, _)
FormatSegment(segment, context, i) ==
    IF i > Len(segment) THEN ""
    ELSE (IF segment[i].ph
          THEN FormatValue(Convert(context[segment[i].name], segment[i].conv),
                           segment[i].spec)
          ELSE segment[i].name) \o FormatSegment(segment, context, i + 1)

\* the pieces of a template from segment i on, in the order of the text
RECURSIVE Pieces(_, _)
Pieces(template, i) ==
    IF i > Len(template) THEN <<>>
    ELSE template[i] \o Pieces(template, i + 1)

\* the exception str.format raises at the first field it cannot fill, from
\* piece i on: KeyError for a name the context lacks, ValueError for an int
\* format spec applied to a str; None when every field can be filled
RECURSIVE FormatError(_, _, _)
FormatError(pieces, context, i) ==
    IF i > Len(pieces) THEN None
    ELSE IF ~pieces[i].ph THEN FormatError(pieces, context, i + 1)
    ELSE IF pieces[i].name \notin DOMAIN context
    THEN Some("'" \o pieces[i].name \o "'")
    ELSE IF pieces[i].spec = "02d"
            /\ ~Convert(context[pieces[i].name], pieces[i].conv).int
    THEN Some("Unknown format code 'd' for object of type 'str'")
    ELSE FormatError(pieces, context, i + 1)

\* the relative path, or the exception; the context is built once and bound
render_template(metadata, template, extra) ==
    LET invalid == _validate_template(template, extra)
        rendered(context) ==
            LET error == FormatError(Pieces(template, 1), context, 1)
            IN  IF invalid # None
                THEN [raised |-> TRUE, exc |-> invalid[1], relative |-> <<>>]
                ELSE IF error # None
                THEN [raised |-> TRUE, exc |-> error[1], relative |-> <<>>]
                ELSE [raised |-> FALSE, exc |-> "",
                      relative |-> [i \in 1..Len(template) |->
                                      FormatSegment(template[i], context, 1)]]
    IN  CHOOSE r \in {rendered(context) :
                        context \in {build_context(metadata, extra)}} : TRUE

(* ------------------------------ config.py ------------------------------ *)

\* str -> pieces, for the template texts of the model
ParseTemplate(text) ==
    CASE text = "{year}/{evento}" -> << <<Ph("year", "")>>, <<Ph("evento", "")>> >>
      [] OTHER -> << <<Lit(text)>> >>

\* OrganizerConfig.resolve_template: the name of a default template or of a
\* profile gives that template, any other text is the template itself
resolve_template(template, profiles) ==
    IF template \in DOMAIN DEFAULT_TEMPLATES THEN DEFAULT_TEMPLATES[template]
    ELSE IF template \in DOMAIN profiles THEN profiles[template]
    ELSE ParseTemplate(template)

(* ----------------------------- organizer.py ---------------------------- *)

FileResult(source, destination, status, message) ==
    [source |-> source, destination |-> destination, status |-> status,
     message |-> message]

\* OrganizeSummary.add putting the result first
add_prepend(results, result) == <<result>> \o results

\* OrganizeSummary.add
add(results, result) == Append(results, result)

\* the loop without its test: the first numbered name, taken or not
Probe_unchecked(f, destination_dir, source_path, counter) ==
    destination_dir \o
        <<stem(source_path) \o "_" \o ToString(counter) \o suffix(source_path)>>

\* the while loop of _resolve_destination: the first counter whose name
\* does not exist
\* the probe with the counter advanced twice per round
RECURSIVE Probe_by_two(_, _, _, _)
Probe_by_two(f, destination_dir, source_path, counter) ==
    LET candidate == destination_dir \o
            <<stem(source_path) \o "_" \o ToString(counter) \o suffix(source_path)>>
    IN  IF Exists(f, candidate)
        THEN Probe_by_two(f, destination_dir, source_path, counter + 2)
        ELSE candidate

RECURSIVE Probe(_, _, _, _)
Probe(f, destination_dir, source_path, counter) ==
    LET candidate == destination_dir \o
            <<stem(source_path) \o "_" \o ToString(counter) \o suffix(source_path)>>
    IN  IF Exists(f, candidate)
        THEN Probe(f, destination_dir, source_path, counter + 1)
        ELSE candidate

\* the directory a file goes to: the rendered template under the
\* destination, or unknown_date
destination_dir_of(metadata, config) ==
    IF has_reliable_timestamp(metadata)
    THEN LET r == render_template(metadata, config.template, config.extra)
         IN  [raised |-> r.raised, exc |-> r.exc,
              dir |-> Abs(config.destination \o r.relative)]
    ELSE [raised |-> FALSE, exc |-> "",
          dir |-> Abs(config.destination \o <<"unknown_date">>)]

\* the candidate returned, the file system after mkdir, or the exception;
\* the destination directory is computed once and bound
_resolve_destination(f, metadata, config) ==
    LET filename == Name(metadata.source_path)
        resolved(d, made) ==
            IF d.raised
            THEN [raised |-> TRUE, exc |-> d.exc, fs |-> f, destination |-> <<>>]
            ELSE IF made.raised
            THEN [raised |-> TRUE, exc |-> made.exc, fs |-> f, destination |-> <<>>]
            ELSE [raised |-> FALSE, exc |-> "", fs |-> made.fs,
                  destination |->
                     IF Exists(made.fs, d.dir \o <<filename>>)
                     THEN Probe(made.fs, d.dir, metadata.source_path, 1)
                     ELSE d.dir \o <<filename>>]
    IN  CHOOSE r \in {resolved(d, Mkdir(f, d.dir)) :
                        d \in {destination_dir_of(metadata, config)}} : TRUE

\* the data of the file a path leads to
Read(f, p) == f[Follow(f, p)[1]].data

\* shutil.move(src, dst): os.rename, which replaces whatever entry dst is,
\* a symbolic link included; into dst when dst is a directory
ShutilMove(f, src, dst) ==
    LET real_dst == IF IsDir(f, dst) THEN dst \o <<Name(src)>> ELSE dst
    IN  IF ~LExists(f, src)
        THEN [raised |-> TRUE, exc |-> "[Errno 2] No such file or directory", fs |-> f]
        ELSE IF IsDir(f, dst) /\ Exists(f, real_dst)
        THEN [raised |-> TRUE, exc |-> "Destination path already exists", fs |-> f]
        ELSE [raised |-> FALSE, exc |-> "",
              fs |-> Put(Remove(f, src), real_dst, f[src])]

\* shutil.copy2(src, dst): opens dst for writing, which follows a symbolic
\* link at dst and truncates the file there
ShutilCopy2(f, src, dst) ==
    LET into == IF IsDir(f, dst) THEN dst \o <<Name(src)>> ELSE dst
        written == IF LExists(f, into) /\ f[into].kind = "symlink"
                   THEN LinkTarget(into, f[into].target) ELSE into
    IN  IF ~IsFile(f, src) \/ ~IsDir(f, Parent(written))
        THEN [raised |-> TRUE, exc |-> "[Errno 2] No such file or directory", fs |-> f]
        ELSE [raised |-> FALSE, exc |-> "",
              fs |-> Put(f, written, FileEntry(Read(f, src)))]

\* os.symlink(source, destination): the link holds the source as given
OsSymlink(f, source, dst) ==
    IF LExists(f, dst)
    THEN [raised |-> TRUE, exc |-> "[Errno 17] File exists", fs |-> f]
    ELSE [raised |-> FALSE, exc |-> "", fs |-> Put(f, dst, LinkEntry(source))]

\* os.link(source, destination): a second name for the file of the source
OsLink(f, src, dst) ==
    IF ~Exists(f, src)
    THEN [raised |-> TRUE, exc |-> "[Errno 2] No such file or directory", fs |-> f]
    ELSE IF LExists(f, dst)
    THEN [raised |-> TRUE, exc |-> "[Errno 17] File exists", fs |-> f]
    ELSE [raised |-> FALSE, exc |-> "", fs |-> Put(f, dst, f[Follow(f, src)[1]])]

Denied(f) == [raised |-> TRUE, exc |-> "[Errno 13] Permission denied", fs |-> f]

\* symlink first, hard link when the symlink raises; `denied`: the platform
\* refuses the symbolic link
_create_link(f, source, destination, denied) ==
    LET sym == IF denied THEN Denied(f) ELSE OsSymlink(f, source, destination)
    IN  IF sym.raised THEN OsLink(f, Abs(source), destination) ELSE sym

DryRunMessage == "Se omitio el movimiento por estar en modo dry-run."

\* the try block of _apply_action; `denied`: the operating system refuses
\* the first call the action makes
perform(f, source, destination, action, denied) ==
    CASE action = "move" ->
           IF denied THEN Denied(f) ELSE ShutilMove(f, Abs(source), destination)
      [] action = "copy" ->
           IF denied THEN Denied(f) ELSE ShutilCopy2(f, Abs(source), destination)
      [] action = "link" ->
           _create_link(f, source, destination, denied)
      [] OTHER ->
           [raised |-> TRUE, exc |-> "Accion desconocida", fs |-> f]

StatusOf(action) ==
    CASE action = "move" -> "moved"
      [] action = "copy" -> "copied"
      [] action = "link" -> "linked"
      [] OTHER -> "skipped"

\* the status set before the action is tried, and kept when it raises
_apply_action_status_first(f, metadata, destination, config, denied) ==
    LET source == metadata.source_path
        done == perform(f, source, destination, config.action, denied)
    IN  IF config.dry_run
        THEN [fs |-> f,
              result |-> FileResult(source, destination, "dry-run", Some(DryRunMessage))]
        ELSE [fs |-> done.fs,
              result |-> FileResult(source, destination, StatusOf(config.action),
                                    IF done.raised THEN Some(done.exc) ELSE None)]

\* the FileResult and the file system after the action
_apply_action(f, metadata, destination, config, denied) ==
    LET source == metadata.source_path
        done == perform(f, source, destination, config.action, denied)
    IN  IF config.dry_run
        THEN [fs |-> f,
              result |-> FileResult(source, destination, "dry-run", Some(DryRunMessage))]
        ELSE IF done.raised
        THEN [fs |-> f,
              result |-> FileResult(source, destination, "failed", Some(done.exc))]
        ELSE [fs |-> done.fs,
              result |-> FileResult(source, destination, StatusOf(config.action), None)]

\* `except OSError` instead: the ValueError of the template gets through
Caught_os_only(exc) == exc # "El template contiene placeholders desconocidos: evento"

\* `except Exception` in organize: every error of the model is an Exception
Caught(exc) == TRUE

\* the except clause of organize
failed_result(file_path, exc) == FileResult(file_path, file_path, "failed", Some(exc))

\* OrganizeSummary: the number of results with a status, and total
Count(rs, status) == Cardinality({i \in 1..Len(rs) : rs[i].status = status})

total(rs) == Len(rs)

\* Counter(item.status for item in self.results)
status_counts(rs) ==
    [st \in {rs[i].status : i \in 1..Len(rs)} |-> Count(rs, st)]

(* --------------------------- the state machine ------------------------- *)

VARIABLES
    config,      \* OrganizerConfig: destination, action, template, dry_run, extra
    birthtime,   \* whether stat exposes st_birthtime on this platform
    denied,      \* index of the file whose action the OS refuses, 0 for none
    files,       \* the input sequence
    fs,          \* the file system
    fs0,         \* the file system when organize was called
    idx,         \* position in files of the current file
    pc,          \* where organize is: extract, resolve, apply, done, raised
    extracted,   \* what the format-specific extractor gave for the current file
    metadata,    \* Optional MediaMetadata of the current file
    destination, \* Optional path _resolve_destination returned
    results,     \* summary.results
    call         \* the last call of a function made outside organize

vars == <<config, birthtime, denied, files, fs, fs0, idx, pc,
          extracted, metadata, destination, results, call>>

Dest == <<"/", "D">>

Dirs(paths) == [p \in paths |-> DirEntry]

SourceTree ==
    Dirs({<<"/">>, <<"/", "S">>, <<"/", "S", "sub">>, <<"/", "w">>,
          <<"/", "w", "S">>, Dest})
    @@ [p \in {Abs(q) : q \in Sources} |->
          FileEntry(DataOf(CHOOSE q \in Sources : Abs(q) = p))]

Jan == Dest \o <<"2023", "01">>
Unk == Dest \o <<"unknown_date">>

\* destination trees organize can find
TreeEmpty == SourceTree

TreeTaken ==
    (Jan \o <<"photo.jpg">> :> FileEntry("existing"))
    @@ (Unk \o <<"photo.jpg">> :> FileEntry("existing"))
    @@ Dirs({Dest \o <<"2023">>, Jan, Unk}) @@ SourceTree

\* two names taken, and a regular file where the directory 2021 would be
TreeCrowded ==
    (Jan \o <<"photo_1.jpg">> :> FileEntry("existing_1"))
    @@ (Dest \o <<"2021">> :> FileEntry("a file"))
    @@ TreeTaken

\* what an earlier run with action link left: a link holding a relative
\* source path, which dangles, and a link to a source still in place
TreeLinks ==
    (Jan \o <<"photo.jpg">> :> LinkEntry(<<"S", "photo.jpg">>))
    @@ (Unk \o <<"photo.jpg">> :> LinkEntry(PhotoB))
    @@ Dirs({Dest \o <<"2023">>, Jan, Unk}) @@ SourceTree

Trees == {TreeEmpty, TreeTaken, TreeCrowded, TreeLinks}

RECURSIVE SeqsUpTo(_, _)
SeqsUpTo(S, n) ==
    IF n = 0 THEN {<<>>}
    ELSE LET shorter == SeqsUpTo(S, n - 1)
         IN  shorter \cup {Append(q, x) : q \in shorter, x \in S}

NoExtra == [k \in {} |-> ""]

NoProfiles == [k \in {} |-> <<>>]

\* no function has been called yet
NoCall == [fn |-> "", args |-> <<>>, result |-> <<>>]

Init ==
    /\ \E action \in {"move", "copy", "link"}, dry_run \in BOOLEAN,
          template \in {"default", "{year}/{evento}"} :
          config = [destination |-> Dest, action |-> action,
                    template |-> resolve_template(template, NoProfiles),
                    dry_run |-> dry_run, extra |-> NoExtra]
    /\ birthtime \in BOOLEAN
    /\ files \in SeqsUpTo(Sources, MaxFiles)
    /\ denied \in 0..Len(files)
    /\ config.dry_run => denied = 0
    /\ fs \in Trees
    /\ fs0 = fs
    /\ idx = 1
    /\ pc = "extract"
    /\ extracted = None
    /\ metadata = None
    /\ destination = None
    /\ results = <<>>
    /\ call = NoCall

\* the next file of the loop
NextFile ==
    /\ idx' = idx + 1
    /\ pc' = "extract"
    /\ extracted' = None
    /\ metadata' = None
    /\ destination' = None

\* the except clause: a failed result and on to the next file; an error it
\* does not catch ends organize
Except(exc) ==
    IF Caught(exc)
    THEN /\ results' = add(results, failed_result(files[idx], exc))
         /\ NextFile
    ELSE /\ pc' = "raised"
         /\ UNCHANGED <<idx, extracted, metadata, destination, results>>

\* metadata = extract_metadata(file_path), or the except clause
ExtractMetadata ==
    /\ pc = "extract"
    /\ idx <= Len(files)
    /\ LET r == extract_metadata(fs, files[idx], birthtime)
       IN  IF r.raised
           THEN Except(r.exc)
           ELSE /\ metadata' = Some(r.metadata)
                /\ extracted' = r.extracted
                /\ pc' = "resolve"
                /\ UNCHANGED <<idx, destination, results>>
    /\ UNCHANGED <<config, birthtime, denied, files, fs, fs0, call>>

\* destination = self._resolve_destination(metadata), or the except clause
ResolveDestination ==
    /\ pc = "resolve"
    /\ \E r \in {_resolve_destination(fs, metadata[1], config)} :
           /\ fs' = r.fs
           /\ IF r.raised
              THEN Except(r.exc)
              ELSE /\ destination' = Some(r.destination)
                   /\ pc' = "apply"
                   /\ UNCHANGED <<idx, extracted, metadata, results>>
    /\ UNCHANGED <<config, birthtime, denied, files, fs0, call>>

\* result = self._apply_action(metadata, destination); summary.add(result)
ApplyAction ==
    /\ pc = "apply"
    /\ LET r == _apply_action(fs, metadata[1], destination[1], config, denied = idx)
       IN  /\ results' = add(results, r.result)
           /\ fs' = r.fs
           /\ NextFile
    /\ UNCHANGED <<config, birthtime, denied, files, fs0, call>>

\* return summary
Return ==
    /\ pc = "extract"
    /\ idx > Len(files)
    /\ pc' = "done"
    /\ UNCHANGED <<config, birthtime, denied, files, fs, fs0, idx,
                   extracted, metadata, destination, results, call>>

Next == ExtractMetadata \/ ResolveDestination \/ ApplyAction \/ Return

Spec == Init /\ [][Next]_vars

\* organize is one sequential loop in one thread with no concurrent writer:
\* while a step of it is possible, the interpreter takes it.
FairSpec == Spec /\ WF_vars(Next)

(* ------------------- the functions called on their own ----------------- *)

\* MediaMetadata records: every timestamp source, with and without a date
Records ==
    {[source_path |-> p,
      media_type |-> detect_media_type(p),
      category |-> resolve_category(detect_media_type(p)),
      captured_at |-> c,
      camera_make |-> mk,
      camera_model |-> None,
      original_name |-> Name(p),
      timestamp_source |-> s] :
        p \in {PhotoA, Notes},
        c \in {None, Some(Date(2023, 1, 2, 12, 0, 0)), Some(Date(2021, 11, 9, 8, 5, 0))},
        mk \in {None, Some("Canon")},
        s \in TimestampSource}

\* the example files in place
ExampleTree ==
    Dirs({<<"/", "E">>}) @@ [p \in Examples |-> FileEntry(DataOf(p))] @@ SourceTree

\* nothing of organize is running while the functions are called
CallInit ==
    /\ config = [destination |-> Dest, action |-> "copy",
                 template |-> resolve_template("default", NoProfiles),
                 dry_run |-> FALSE, extra |-> NoExtra]
    /\ birthtime \in BOOLEAN
    /\ denied = 0
    /\ files = <<>>
    /\ fs \in {ExampleTree, SourceTree}
    /\ fs0 = fs
    /\ idx = 1
    /\ pc = "call"
    /\ extracted = None
    /\ metadata = None
    /\ destination = None
    /\ results = <<>>
    /\ call = NoCall

\* the variables of organize, which a call leaves alone
organize_vars ==
    <<config, birthtime, denied, files, fs, fs0, idx, pc,
      extracted, metadata, destination, results>>

\* what a call leaves: its name, its arguments and what it gave
Returned(fn, args, result) == [fn |-> fn, args |-> args, result |-> result]

\* metadata.has_reliable_timestamp
CallHasReliableTimestamp ==
    \E m \in Records :
        /\ call.fn = ""
        /\ call' = Returned("has_reliable_timestamp", m, has_reliable_timestamp(m))
        /\ UNCHANGED organize_vars

\* metadata.extract_metadata
CallExtractMetadata ==
    \E path \in Examples :
        /\ call.fn = ""
        /\ call' = Returned("extract_metadata", path,
                            extract_metadata(fs, path, birthtime))
        /\ UNCHANGED organize_vars

\* paths of every file name of the model, in two directories
NamedPaths ==
    {<<"/", "E", t[1]>> : t \in NameTable} \cup {<<"in", t[1]>> : t \in NameTable}

\* metadata.detect_media_type
CallDetectMediaType ==
    \E path \in NamedPaths :
        /\ call.fn = ""
        /\ call' = Returned("detect_media_type", path, detect_media_type(path))
        /\ UNCHANGED organize_vars

\* metadata.resolve_category
CallResolveCategory ==
    \E media_type \in MediaType :
        /\ call.fn = ""
        /\ call' = Returned("resolve_category", media_type,
                            resolve_category(media_type))
        /\ UNCHANGED organize_vars

\* "{year}/{unknown}"
YearUnknown == << <<Ph("year", "")>>, <<Ph("unknown", "")>> >>

\* "{unknown}/{evento}-{unknown}"
UnknownTwice ==
    << <<Ph("unknown", "")>>, <<Ph("evento", ""), Lit("-"), Ph("unknown", "")>> >>

\* "{category}/{year}"
CategoryYear == << <<Ph("category", "")>>, <<Ph("year", "")>> >>

\* "{year}/{evento}"
YearEvento == << <<Ph("year", "")>>, <<Ph("evento", "")>> >>

\* "{year!r}/{unknown!r}"
YearUnknownRepr == << <<PhConv("year", "!r", "")>>, <<PhConv("unknown", "!r", "")>> >>

\* "fotos/{year}-{month}-{day}/{hour}-{minute}-{second}/{stem}.{ext}/
\* {camera_make}-{camera_model}/{month_name}-{month_name_short}"
EveryBuiltIn ==
    << <<Lit("fotos")>>,
       <<Ph("year", ""), Lit("-"), Ph("month", ""), Lit("-"), Ph("day", "")>>,
       <<Ph("hour", ""), Lit("-"), Ph("minute", ""), Lit("-"), Ph("second", "")>>,
       <<Ph("stem", ""), Lit("."), Ph("ext", "")>>,
       <<Ph("camera_make", ""), Lit("-"), Ph("camera_model", "")>>,
       <<Ph("month_name", ""), Lit("-"), Ph("month_name_short", "")>> >>

RenderTemplates ==
    {DEFAULT_TEMPLATES[n] : n \in DOMAIN DEFAULT_TEMPLATES}
    \cup {YearUnknown, UnknownTwice, CategoryYear, YearEvento, YearUnknownRepr,
          EveryBuiltIn}

\* the extra fields of a call: none, a new key, keys named as built-in
\* placeholders are
Extras ==
    {NoExtra,
     [k \in {"evento"} |-> "boda"],
     [k \in {"year", "evento"} |-> IF k = "year" THEN "1999" ELSE "boda"],
     [k \in available_placeholders |-> "x"]}

\* templates.render_template
CallRenderTemplate ==
    \E m \in {r \in Records : r.captured_at # None /\ has_reliable_timestamp(r)},
       template \in RenderTemplates, extra \in Extras :
        /\ call.fn = ""
        /\ call' = Returned("render_template",
                            [metadata |-> m, template |-> template, extra |-> extra],
                            render_template(m, template, extra))
        /\ UNCHANGED organize_vars

\* metadata._extract_image_metadata
CallExtractImageMetadata ==
    \E path \in {q \in Examples : detect_media_type(q) = "IMAGE"} :
        /\ call.fn = ""
        /\ call' = Returned("_extract_image_metadata", path,
                            _extract_image_metadata(fs, path))
        /\ UNCHANGED organize_vars

CallNext ==
    \/ CallExtractImageMetadata
    \/ CallRenderTemplate
    \/ CallHasReliableTimestamp
    \/ CallExtractMetadata
    \/ CallDetectMediaType
    \/ CallResolveCategory

Calls == CallInit /\ [][CallNext]_vars

(* ------------------------------- claims -------------------------------- *)

Done == pc = "done"

\* C1: organize returns one FileResult per input file, in input order: when
\* the k-th file has been processed the result sequence has length k and
\* results[i].source is the i-th input path, for failed files as well.
C1_OneResultPerFileInOrder ==
    /\ pc \in {"extract", "resolve", "apply"} => Len(results) = idx - 1
    /\ Done => Len(results) = Len(files)
    /\ \A i \in 1..Len(results) : results[i].source = files[i]

\* a run of two different files, the first failed and the second not
C1_Witness ==
    /\ Done
    /\ Len(results) = 2
    /\ files[1] # files[2]
    /\ results[1].status = "failed"
    /\ results[2].status = "copied"

\* the error the step about to be taken raises, None when it raises none
ErrorRaised ==
    CASE pc = "extract" /\ idx <= Len(files) ->
           LET r == extract_metadata(fs, files[idx], birthtime)
           IN  IF r.raised THEN Some(r.exc) ELSE None
      [] pc = "resolve" ->
           LET r == _resolve_destination(fs, metadata[1], config)
           IN  IF r.raised THEN Some(r.exc) ELSE None
      [] pc = "apply" /\ ~config.dry_run ->
           LET r == perform(fs, metadata[1].source_path, destination[1],
                            config.action, denied = idx)
           IN  IF r.raised THEN Some(r.exc) ELSE None
      [] OTHER -> None

\* C2: an error raised while a file is processed (metadata extraction,
\* destination resolution or the action) becomes a FileResult for that file
\* with status failed and the error text as message, organize goes on to
\* the next file, and it never raises.
C2_ErrorsBecomeFailedResults ==
    [][/\ pc' # "raised"
       /\ ErrorRaised # None =>
            /\ Len(results') = Len(results) + 1
            /\ results'[Len(results')].source = files[idx]
            /\ results'[Len(results')].status = "failed"
            /\ results'[Len(results')].message = ErrorRaised
            /\ idx' = idx + 1
            /\ pc' = "extract"]_vars

\* a run whose first file failed in resolving its destination and whose
\* second file was organized after it
C2_Witness ==
    /\ Done
    /\ Len(results) = 2
    /\ results[1].status = "failed"
    /\ results[1].message = Some("[Errno 20] Not a directory")
    /\ results[2].status = "moved"

\* {stem}_{n}{ext}, with the stem and the suffix of the metadata record
Numbered(path, n) == stem(path) \o "_" \o ToString(n) \o suffix(path)

\* C3: the destination returned is directory/filename when that does not
\* exist, and otherwise directory/{stem}_{n}{ext} for the smallest n >= 1
\* whose path does not exist; the returned path does not exist when it is
\* returned.  To exist is Path.exists(), which follows symbolic links; {ext}
\* is the suffix of the metadata record (lowercased).
C3_CollisionResolution ==
    pc = "apply" =>
        LET path == metadata[1].source_path
            dir == Parent(destination[1])
        IN  /\ ~Exists(fs, destination[1])
            /\ ~Exists(fs, dir \o <<Name(path)>>) =>
                   destination[1] = dir \o <<Name(path)>>
            /\ Exists(fs, dir \o <<Name(path)>>) =>
                   \E n \in 1..Cardinality(DOMAIN fs) :
                       /\ destination[1] = dir \o <<Numbered(path, n)>>
                       /\ \A k \in 1..(n - 1) : Exists(fs, dir \o <<Numbered(path, k)>>)

\* the third photo.jpg of a directory gets photo_2.jpg
C3_Witness ==
    /\ pc = "apply"
    /\ Exists(fs, Jan \o <<"photo.jpg">>)
    /\ Exists(fs, Jan \o <<"photo_1.jpg">>)
    /\ destination = Some(Jan \o <<"photo_2.jpg">>)

\* a path below the destination directory
UnderDest(p) == Len(p) > Len(Dest) /\ SubSeq(p, 1, Len(Dest)) = Dest

\* C4: with any action nothing that is in the destination tree is overwritten
\* or replaced: every entry below the destination before a step is there,
\* unchanged, after it.
C4_NothingOverwritten ==
    [][\A p \in DOMAIN fs :
          UnderDest(p) => p \in DOMAIN fs' /\ fs'[p] = fs[p]]_vars

\* the destination _resolve_destination computes for a file in a file system
WouldBe(f, path) ==
    _resolve_destination(f, extract_metadata(f, path, birthtime).metadata, config).destination

\* C5: in dry-run mode organize does not touch the file system (the files,
\* directories and links are those it found), every result has status
\* dry-run, and each result reports the destination computed for its file.
C5_DryRunTouchesNothing ==
    config.dry_run =>
        /\ fs = fs0
        /\ \A i \in 1..Len(results) :
              /\ results[i].status = "dry-run"
              /\ results[i].destination = WouldBe(fs0, files[i])

\* C6: a file whose timestamp is unreliable goes to
\* <destination>/<category folder>/unknown_date/<filename>.
C6_UnreliableUnderCategoryFolder ==
    (pc = "apply" /\ ~has_reliable_timestamp(metadata[1])) =>
        LET m == metadata[1]
        IN  Parent(destination[1]) =
                Dest \o <<folder_name(m.category), "unknown_date">>

TwoDigits(n) == IF n < 10 THEN "0" \o ToString(n) ELSE ToString(n)

\* the metadata record of the only file of a run, read when organize began
OnlyFile == extract_metadata(fs0, files[1], birthtime).metadata

\* one file with a reliable timestamp, template {year}/{month:02d}, action
\* copy, an empty destination, and an operating system that refuses nothing
C7_Scenario ==
    /\ Len(files) = 1
    /\ config.template = DEFAULT_TEMPLATES["default"]
    /\ config.action = "copy"
    /\ ~config.dry_run
    /\ denied = 0
    /\ fs0 = TreeEmpty
    /\ has_reliable_timestamp(OnlyFile)

C8_ReliableUnderCategoryFolder ==
    (pc = "apply" /\ has_reliable_timestamp(metadata[1])) =>
        LET m == metadata[1]
        IN  Parent(destination[1]) =
                Dest \o <<folder_name(m.category)>>
                     \o render_template(m, config.template, config.extra).relative

\* C9: every FileResult of a file whose metadata was extracted (any result
\* but the one of the except clause, whose destination is the source)
\* records the category of the file, and the counts by status agree with
\* the results and sum to total.
C9_ResultsCarryCategory ==
    /\ \A i \in 1..Len(results) :
          results[i].source # results[i].destination =>
              /\ "category" \in DOMAIN results[i]
              /\ results[i].category = resolve_category(detect_media_type(files[i]))
    /\ \A st \in DOMAIN status_counts(results) :
          status_counts(results)[st] =
              Cardinality({i \in 1..Len(results) : results[i].status = st})
    /\ Count(results, "moved") + Count(results, "copied")
         + Count(results, "linked") + Count(results, "skipped")
         + Count(results, "failed") + Count(results, "dry-run") = total(results)

C11_ReliableIffMetadataOrCreation ==
    call.fn = "has_reliable_timestamp" =>
        LET src == call.args.timestamp_source
        IN  /\ src = "METADATA" => call.result = TRUE
            /\ src = "FILE_CREATION" => call.result = TRUE
            /\ src = "FILE_MODIFICATION" => call.result = FALSE
            /\ src = "UNKNOWN" => call.result = FALSE

\* a record that has a date, from the modification time, and is not reliable
C11_Witness ==
    /\ call.fn = "has_reliable_timestamp"
    /\ call.args.timestamp_source = "FILE_MODIFICATION"
    /\ call.args.captured_at # None
    /\ call.result = FALSE

AirBrush == Example("AirBrush_20210823224920_1.jpg")

ContainerDated == Example("20221024-202545-730_1.mp4")

\* C12: a file whose embedded metadata gives no date and whose name embeds
\* one gets captured_at from the name with timestamp_source FILENAME, a video
\* dated by its container gets CONTAINER_METADATA, and both are reliable.
C12_FilenameAndContainerSources ==
    (call.fn = "extract_metadata" /\ ~call.result.raised) =>
        LET m == call.result.metadata
        IN  /\ call.args = AirBrush =>
                /\ m.timestamp_source = "FILENAME"
                /\ m.captured_at = Some(Date(2021, 8, 23, 22, 49, 20))
                /\ has_reliable_timestamp(m)
            /\ call.args = ContainerDated =>
                /\ m.timestamp_source = "CONTAINER_METADATA"
                /\ m.captured_at = Some(Date(2022, 10, 24, 20, 25, 45))
                /\ has_reliable_timestamp(m)

\* the type the claim gives the named files
NamedTypes ==
    {<<"track.MP3", "AUDIO">>, <<"manual.PDF", "DOCUMENT">>,
     <<"IMG.JPG", "IMAGE">>, <<"clip.Mov", "VIDEO">>,
     <<"archive.xyz", "OTHER">>, <<"archive.tar.gz", "OTHER">>,
     <<"README", "OTHER">>}

\* C13: detect_media_type maps every path to exactly one media type, decided
\* by the lowercased extension alone: the type of the extension set that has
\* it (track.MP3 is audio, manual.PDF a document), OTHER when no set has it;
\* resolve_category maps IMAGE and VIDEO to PHOTOS_VIDEOS, AUDIO to MUSIC,
\* DOCUMENT to DOCUMENTS and OTHER to OTHER.
C13_ClassificationByExtension ==
    /\ call.fn = "detect_media_type" =>
          LET sfx == suffix(call.args)
          IN  /\ call.result \in MediaType
              /\ call.result = "IMAGE" <=> sfx \in IMAGE_EXTENSIONS
              /\ call.result = "VIDEO" <=> sfx \in VIDEO_EXTENSIONS
              /\ call.result = "AUDIO" <=> sfx \in AUDIO_EXTENSIONS
              /\ call.result = "DOCUMENT" <=> sfx \in DOCUMENT_EXTENSIONS
              /\ call.result = "OTHER" <=> sfx \notin ListedExtensions
              /\ \A t \in NamedTypes :
                    Name(call.args) = t[1] => call.result = t[2]
    /\ call.fn = "resolve_category" =>
          /\ call.args \in {"IMAGE", "VIDEO"} => call.result = "PHOTOS_VIDEOS"
          /\ call.args = "AUDIO" => call.result = "MUSIC"
          /\ call.args = "DOCUMENT" => call.result = "DOCUMENTS"
          /\ call.args = "OTHER" => call.result = "OTHER"

\* an upper-case extension classified as its lower-case form is
C13_Witness ==
    /\ call.fn = "detect_media_type"
    /\ Name(call.args) = "track.MP3"
    /\ call.result = "AUDIO"

\* the identifiers of all replacement fields of a template
FieldNames(template) ==
    {Pieces(template, 1)[i].name :
        i \in {k \in 1..Len(Pieces(template, 1)) : Pieces(template, 1)[k].ph}}

\* the unknown names of the templates of the model, sorted and joined
Listing(names) ==
    CASE names = {"unknown"} -> "unknown"
      [] names = {"evento"} -> "evento"
      [] names = {"category"} -> "category"
      [] names = {"evento", "unknown"} -> "evento, unknown"
      [] OTHER -> "?"

\* C14: when the template has a placeholder whose identifier is neither a
\* recognized placeholder nor a key of extra, render_template raises the
\* validation error, whose message lists every unknown name once and in
\* sorted order, and returns no path.
C14_UnknownPlaceholdersListed ==
    call.fn = "render_template" =>
        LET unknown == FieldNames(call.args.template)
                       \ (available_placeholders \cup DOMAIN call.args.extra)
        IN  unknown # {} =>
              /\ call.result.raised
              /\ call.result.relative = <<>>
              /\ call.result.exc =
                    "El template contiene placeholders desconocidos: "
                    \o Listing(unknown)

\* C15: {category} is a recognized placeholder that renders as the folder
\* name of the category of the file: "{category}/{year}" for an image
\* captured in 2023 gives Fotos_y_Videos/2023 and does not raise.
C15_CategoryPlaceholder ==
    (/\ call.fn = "render_template"
     /\ call.args.template = CategoryYear
     /\ call.args.extra = NoExtra
     /\ call.args.metadata.media_type = "IMAGE"
     /\ call.args.metadata.captured_at[1].year = 2023) =>
        /\ ~call.result.raised
        /\ call.result.relative = <<"Fotos_y_Videos", "2023">>

\* the text str.format gives for the built-in fields of a record
BuiltInText(m) ==
    LET dt == m.captured_at[1]
    IN  <<"fotos",
          ToString(dt.year) \o "-" \o ToString(dt.month) \o "-" \o ToString(dt.day),
          ToString(dt.hour) \o "-" \o ToString(dt.minute) \o "-" \o ToString(dt.second),
          Name(m.source_path),
          (IF m.camera_make = Some("Canon") THEN "canon" ELSE "unknown") \o "-unknown",
          IF dt.month = 1 THEN "enero-ene" ELSE "noviembre-nov">>

\* C16: extra only extends the context: a key of extra is a usable
\* placeholder, and each of the twelve built-in placeholders renders the
\* value derived from the metadata whatever keys extra has, a key of the
\* same name included.
C16_ExtraOnlyExtends ==
    call.fn = "render_template" =>
        /\ call.args.template = EveryBuiltIn =>
              /\ ~call.result.raised
              /\ call.result.relative = BuiltInText(call.args.metadata)
        /\ (call.args.template = YearEvento /\ "evento" \in DOMAIN call.args.extra) =>
              /\ ~call.result.raised
              /\ call.result.relative =
                    <<ToString(call.args.metadata.captured_at[1].year),
                      call.args.extra["evento"]>>

\* the step that applies the action to the current file, dry-run off
Applies == pc = "apply" /\ pc' = "extract" /\ ~config.dry_run

\* the result the step added
Added == results'[Len(results')]

\* the source file is where it was, as it was
SourceIntact(p) == p \in DOMAIN fs' /\ fs'[p] = fs[p]

\* what the claim says of the step that applies the action
ActionEffects ==
    LET src == Abs(metadata[1].source_path)
        dst == destination[1]
    IN  /\ Added.status \in {StatusOf(config.action), "failed"}
        /\ Added.status = "moved" =>
              /\ src \notin DOMAIN fs'
              /\ dst \in DOMAIN fs' /\ fs'[dst] = fs[src]
        /\ Added.status = "copied" =>
              /\ SourceIntact(src)
              /\ IsFile(fs', dst) /\ Read(fs', dst) = Read(fs, src)
        /\ Added.status = "linked" =>
              /\ SourceIntact(src)
              /\ \/ /\ fs'[dst].kind = "symlink"
                    /\ LinkTarget(dst, fs'[dst].target) = src
                 \/ /\ denied = idx
                    /\ fs'[dst] = fs[src]
        /\ (config.action = "link" /\ Added.status = "failed") =>
              /\ denied = idx \/ LExists(fs, dst)
              /\ ~Exists(fs, src) \/ LExists(fs, dst)

\* C17: with dry-run off, move leaves the file at the destination and not at
\* the source, status moved; copy leaves a duplicate at the destination and
\* the source intact, status copied; link leaves at the destination a
\* symbolic link that points to the source, or a hard link to it when the
\* symbolic link cannot be created, the source intact, status linked; link
\* fails only when neither link can be created.
C17_ActionEffects == [][Applies => ActionEffects]_vars

\* a step that adds a result
Adds == Len(results') = Len(results) + 1

Organized == {"moved", "copied", "linked"}

TemplateError == _validate_template(config.template, config.extra)

\* C19: when the configured template has an unknown placeholder organize
\* does not raise, every result has status failed with the validation
\* message, and no file is moved, copied or linked: the files and links
\* are those organize found.
C19_InvalidTemplateFailsEveryFile ==
    TemplateError # None =>
        /\ pc # "raised"
        /\ \A i \in 1..Len(results) :
              /\ results[i].status = "failed"
              /\ results[i].message = TemplateError
        /\ \A p \in DOMAIN fs \cup DOMAIN fs0 :
              (p \notin DOMAIN fs \/ fs[p].kind # "dir") =>
                  p \in DOMAIN fs /\ p \in DOMAIN fs0 /\ fs[p] = fs0[p]

\* C20: no extractor raises for a failure to read metadata: whatever error
\* the reader of a file meets (a corrupt or unreadable file, a missing or
\* failing probe, invalid probe output, a malformed zip or XML, a missing
\* library), the extractor gives (None, UNKNOWN) and extract_metadata goes on
\* to the time of the file system; extract_metadata raises only when stat
\* fails, which in the model is when the file is not there.
C20_ExtractorsNeverRaise ==
    call.fn = "extract_metadata" =>
        /\ call.result.raised =>
              /\ ~Exists(fs, call.args)
              /\ call.result.exc = "[Errno 2] No such file or directory"
        /\ (Exists(fs, call.args) /\ World[call.args].fault # "") =>
              /\ ~call.result.raised
              /\ call.result.extracted = None
              /\ call.result.metadata.timestamp_source
                    \in {"FILE_CREATION", "FILE_MODIFICATION"}

\* the timestamp a date tag of a file provides: the tag is there and is
\* written YYYY:MM:DD HH:MM:SS; None otherwise
Provides(path, tag) ==
    IF tag \in DOMAIN World[path].exif
    THEN _parse_exif_datetime(World[path].exif[tag]) ELSE None

\* the timestamp of the first of the three tags, in order, that provides one
FirstProvided(path) ==
    IF Provides(path, "DateTimeOriginal") # None
    THEN Provides(path, "DateTimeOriginal")
    ELSE IF Provides(path, "DateTimeDigitized") # None
    THEN Provides(path, "DateTimeDigitized")
    ELSE Provides(path, "DateTime")

\* C21: the image extractor takes its timestamp from the first of
\* DateTimeOriginal, DateTimeDigitized, DateTime, in that order, that
\* provides one in the pattern YYYY:MM:DD HH:MM:SS, so a lower tag is used
\* whenever the higher ones give none; the source is METADATA exactly when a
\* timestamp was produced, and the result is (None, UNKNOWN) otherwise.
C21_FirstTagThatProvides ==
    (/\ call.fn = "_extract_image_metadata"
     /\ IsFile(fs, call.args)
     /\ World[call.args].fault = "") =>
        /\ call.result.captured_at = FirstProvided(call.args)
        /\ call.result.timestamp_source = "METADATA"
              <=> call.result.captured_at # None
        /\ call.result.captured_at = None
              => call.result.timestamp_source = "UNKNOWN"

\* several copies of /S/photo.jpg into an empty destination, nothing refused
SameNameScenario ==
    /\ fs0 = TreeEmpty
    /\ config.action = "copy"
    /\ config.template = DEFAULT_TEMPLATES["default"]
    /\ denied = 0
    /\ \A i \in 1..Len(files) : files[i] = PhotoA

\* C22: in a run with dry-run off the destinations of the results with
\* status moved, copied or linked are pairwise distinct, also when several
\* input files have the same name and go to the same directory: the first
\* gets the file name and the n-th after it {stem}_{n}{ext}.
C22_DistinctDestinations ==
    ~config.dry_run =>
        /\ \A i, j \in 1..Len(results) :
              (/\ i # j
               /\ results[i].status \in Organized
               /\ results[j].status \in Organized) =>
                  results[i].destination # results[j].destination
        /\ SameNameScenario =>
              \A i \in 1..Len(results) :
                  /\ results[i].status = "copied"
                  /\ results[i].destination =
                        Jan \o <<IF i = 1 THEN "photo.jpg"
                                 ELSE Numbered(PhotoA, i - 1)>>

\* the same file copied three times: photo.jpg, photo_1.jpg, photo_2.jpg
C22_Witness ==
    /\ Done
    /\ ~config.dry_run
    /\ SameNameScenario
    /\ Len(results) = 3
    /\ results[3].destination = Jan \o <<"photo_2.jpg">>
    /\ IsFile(fs, Jan \o <<"photo.jpg">>)
    /\ IsFile(fs, Jan \o <<"photo_1.jpg">>)
    /\ IsFile(fs, Jan \o <<"photo_2.jpg">>)

\* the entries of a directory
Entries(f, dir) == {p \in DOMAIN f : Len(p) = Len(dir) + 1 /\ Parent(p) = dir}

\* how many candidate names the probe tested before it returned this one:
\* the file name itself, then {stem}_1{ext}, {stem}_2{ext}, ...
Tested(source_path, candidate, k) ==
    IF Name(candidate) = Name(source_path)
    THEN 1
    ELSE IF \E n \in 1..k : Name(candidate) = Numbered(source_path, n)
    THEN 1 + CHOOSE n \in 1..k : Name(candidate) = Numbered(source_path, n)
    ELSE k + 2

ProbeBound ==
    pc = "apply" =>
        LET k == Cardinality(Entries(fs, Parent(destination[1])))
        IN  Tested(metadata[1].source_path, destination[1], k) <= k + 1

\* C23: organize terminates for every finite input sequence over a finite
\* destination tree: the collision probe of one file returns after at most
\* k+1 candidate names, k being the number of entries of the target
\* directory, and the run eventually returns a summary with one result per
\* input file.
C23_Terminates ==
    /\ <>Done
    /\ [](Done => Len(results) = Len(files))
    /\ []ProbeBound

\* a finished run of three files whose first probe went through every entry
\* of its directory: photo.jpg and photo_1.jpg taken, photo_2.jpg returned
C23_Witness ==
    /\ Done
    /\ Len(files) = 3
    /\ Len(results) = 3
    /\ Cardinality(Entries(fs0, Jan)) = 2
    /\ results[1].destination = Jan \o <<"photo_2.jpg">>

====
